---- MODULE Spec2Model ----
(***************************************************************************)
(* Model of the Wenidi attendance ledger:                                  *)
(*   sources/attendence.move, module wenidi_addr::attendance_system,       *)
(* and of its JavaScript client:                                           *)
(*   services/Context/WalletContext.js (WalletContextProvider) and         *)
(*   services/aptosService.js (AptosService), each with a specification    *)
(*   of its own, SpecWallet and SpecService.                               *)
(*                                                                         *)
(* Global storage maps an account address to the AttendanceSystem resource *)
(* published under it.  Every entry function is one atomic transaction: it *)
(* either commits all its writes or aborts with a code and commits none.   *)
(* Addresses, date strings and names are small integers; SmartTables are   *)
(* functions whose DOMAIN is the set of keys present; vectors are          *)
(* sequences.                                                              *)
(***************************************************************************)
EXTENDS Integers, Sequences, FiniteSets, TLC

\* ------------------------------------------------------------------ bounds
NumAddr == 2            \* account addresses 1..NumAddr
NumDates == 1           \* distinct date strings
NumNames == 1           \* distinct user-supplied names
MaxUserType == 3        \* user_type arguments range over 1..MaxUserType
StartTime == 1          \* chain time (seconds) when the module is published
TimeSpan == 1           \* the clock advances at most TimeSpan seconds
MaxSystems == 2         \* AttendanceSystem resources published at most
MaxUsers == 2           \* users registered in one AttendanceSystem at most
MaxRecords == 2         \* attendance records in one AttendanceSystem at most
MaxPromises == 2        \* promises the wallet context awaits at one time
MaxCalls == 2           \* AptosService invocations in progress at one time
NumHashes == 2          \* distinct transaction hashes
NumErrors == 2          \* distinct messages of rejected SDK calls

Address == 1..NumAddr
Dates == 1..NumDates
Names == 1..NumNames
UserTypeArgs == 1..MaxUserType
\* Arguments of type address: the signing accounts and one address that never
\* signs a transaction.
AddressArgs == 1..(NumAddr + 1)
MaxTime == StartTime + TimeSpan

\* -------------------------------------------------------- program constants
wenidi_addr == 1        \* the named address the module is published under

E_NOT_AUTHORIZED == 1
E_USER_NOT_FOUND == 2
E_ALREADY_REGISTERED == 3
E_INVALID_USER_TYPE == 4
E_ATTENDANCE_ALREADY_MARKED == 5

USER_TYPE_STUDENT == 1
USER_TYPE_TEACHER == 2
USER_TYPE_ADMIN == 3

SYSTEM_ADMIN_NAME == 0  \* string::utf8(b"System Admin")

\* Outcomes of a transaction that are not one of the module's own codes.
EXECUTED == 0                   \* the transaction committed
RESOURCE_ALREADY_EXISTS == 4004 \* move_to on an address that has the resource
MISSING_DATA == 4008            \* borrow_global(_mut) of an absent resource
SMART_TABLE_ENOT_FOUND == 65537 \* smart_table::borrow(_mut) of an absent key

\* ------------------------------------------------------------------- state
VARIABLES
    resources,  \* global storage: address -> AttendanceSystem published there
    now,        \* timestamp::now_seconds()
    last        \* the last transaction: entry function, arguments, outcome

\* WalletContextProvider (services/Context/WalletContext.js)
VARIABLES
    connected,  \* useWallet().connected
    walletAccount, \* useWallet().account: null or an object with an address
    userType,   \* useState(null): "null", "student", "teacher", "admin", ...
    userInfo,   \* useState(null): null or the data of a getUserInfo result
    loading,    \* useState(false)
    error,      \* useState(null): "null" or a message
    effectDeps, \* [connected, account] as the effect of lines 40-47 last saw
    promises    \* the promises the provider's async functions are awaiting

\* AptosService (services/aptosService.js)
VARIABLES
    calls       \* call slot -> progress of one transaction method invocation

ledgervars == <<resources, now, last>>
walletvars ==
    <<connected, walletAccount, userType, userInfo, loading, error, effectDeps,
      promises>>
servicevars == <<calls>>

vars == <<ledgervars, walletvars, servicevars>>

\* ------------------------------------------------------------------ structs
User(a, n, t, time) ==
    [address |-> a, name |-> n, user_type |-> t, registration_time |-> time]

AttendanceRecord(u, d, cin, cout, p, m) ==
    [user_address |-> u, date |-> d, check_in_time |-> cin,
     check_out_time |-> cout, is_present |-> p, marked_by |-> m]

UserRegistrationEvent(a, n, t, time) ==
    [user_address |-> a, name |-> n, user_type |-> t, timestamp |-> time]

AttendanceMarkedEvent(u, d, cin, p, m, time) ==
    [user_address |-> u, date |-> d, check_in_time |-> cin,
     is_present |-> p, marked_by |-> m, timestamp |-> time]

\* smart_table::new() / vector::empty(): a table with no keys
EmptyTable == << >>

\* smart_table::add(table, key, value), used only where key is absent
TableAdd(table, key, value) == (key :> value) @@ table

\* The record of one transaction.  Arguments an entry function does not take
\* are 0 / FALSE.
Call(op, caller, user_address, date, is_present, name, user_type, abort) ==
    [op |-> op, caller |-> caller, user_address |-> user_address,
     date |-> date, is_present |-> is_present, name |-> name,
     user_type |-> user_type, abort |-> abort]

NoCall == Call("none", 0, 0, 0, FALSE, 0, 0, EXECUTED)

\* exists<AttendanceSystem>(@wenidi_addr)
SystemExists == wenidi_addr \in DOMAIN resources

\* borrow_global<AttendanceSystem>(@wenidi_addr), where it exists
System == resources[wenidi_addr]

\* Sizes the bounds MaxSystems, MaxUsers and MaxRecords cap: a transaction
\* that would commit beyond a cap is not explored; aborting ones always are.
NumSystems == Cardinality(DOMAIN resources)
NumUsers == IF SystemExists THEN Cardinality(DOMAIN System.users) ELSE 0
NumRecords ==
    IF SystemExists
    THEN Cardinality({ud \in Address \X Dates :
                        /\ ud[1] \in DOMAIN System.daily_attendance
                        /\ ud[2] \in DOMAIN System.daily_attendance[ud[1]]})
    ELSE 0

\* -------------------------------------------------------------- helpers
\* Variant: a teacher counts as an admin.
is_admin_or_teacher(user_addr, users) ==
    IF user_addr \in DOMAIN users
    THEN users[user_addr].user_type >= USER_TYPE_TEACHER
    ELSE FALSE

\* Variant: an unregistered address counts as an admin.
is_admin_default_true(user_addr, users) ==
    IF user_addr \in DOMAIN users
    THEN users[user_addr].user_type = USER_TYPE_ADMIN
    ELSE TRUE

is_admin(user_addr, users) ==
    IF user_addr \in DOMAIN users
    THEN users[user_addr].user_type = USER_TYPE_ADMIN
    ELSE FALSE

\* Variant: any registered user counts as a teacher.
is_teacher_any_registered(user_addr, users) ==
    user_addr \in DOMAIN users

is_teacher(user_addr, users) ==
    IF user_addr \in DOMAIN users
    THEN users[user_addr].user_type = USER_TYPE_TEACHER
    ELSE FALSE

\* ------------------------------------------------------------------ views
\* A view either returns a value or aborts with a code.
Returned(v) == [abort |-> EXECUTED, value |-> v]
Aborted(code) == [abort |-> code]

get_user_info(user_address) ==
    IF ~SystemExists THEN Aborted(MISSING_DATA)
    ELSE IF user_address \notin DOMAIN System.users
         THEN Aborted(E_USER_NOT_FOUND)
    ELSE Returned(System.users[user_address])

get_user_attendance(user_address, date) ==
    IF ~SystemExists THEN Aborted(MISSING_DATA)
    ELSE IF user_address \notin DOMAIN System.daily_attendance
         THEN Aborted(SMART_TABLE_ENOT_FOUND)
    ELSE IF date \notin DOMAIN System.daily_attendance[user_address]
         THEN Aborted(SMART_TABLE_ENOT_FOUND)
    ELSE Returned(System.daily_attendance[user_address][date])

get_daily_attendance(date) ==
    IF ~SystemExists THEN Aborted(MISSING_DATA)
    ELSE IF date \in DOMAIN System.attendance_records
         THEN Returned(System.attendance_records[date])
    ELSE Returned(<< >>)

is_user_registered(user_address) ==
    IF ~SystemExists THEN Aborted(MISSING_DATA)
    ELSE Returned(user_address \in DOMAIN System.users)

get_admin_address ==
    IF ~SystemExists THEN Aborted(MISSING_DATA)
    ELSE Returned(System.admin)

get_all_attendance_by_date(date, caller) ==
    IF ~SystemExists THEN Aborted(MISSING_DATA)
    ELSE IF ~is_admin(caller, System.users) THEN Aborted(E_NOT_AUTHORIZED)
    ELSE IF date \in DOMAIN System.attendance_records
         THEN Returned(System.attendance_records[date])
    ELSE Returned(<< >>)

\* The record of a mark_checkout transaction; it also keeps the check-out
\* time the per-account record had when the transaction began (0 when the
\* record is absent or not yet checked out).
CheckoutCall(user, date, abort) ==
    [replaced |-> IF get_user_attendance(user, date).abort = EXECUTED
                  THEN get_user_attendance(user, date).value.check_out_time
                  ELSE 0]
    @@ Call("mark_checkout", user, 0, date, FALSE, 0, 0, abort)

\* ------------------------------------------------------------------- Init
\* JavaScript's null where an object is expected, and where a string is.
null == [null |-> TRUE]
nullString == "null"

\* The account object of the wallet adapter.
Account(a) == [address |-> a]

\* The provider after its first render: the useState initial values, no
\* wallet connected, and the effect has run once for [false, null].
WalletInit ==
    /\ connected = FALSE
    /\ walletAccount = null
    /\ userType = nullString
    /\ userInfo = null
    /\ loading = FALSE
    /\ error = nullString
    /\ effectDeps = <<FALSE, null>>
    /\ promises = {}

\* One invocation of a transaction method of AptosService: the method, where
\* it stands (pc: the SDK call it awaits, "returned", or "threw" when the
\* method's own promise rejected), the SDK calls it has started, how each of
\* them settled, the hash signAndSubmitTransaction gave, the object returned.
Invocation(method, pc, steps, settled, hash, result) ==
    [method |-> method, pc |-> pc, steps |-> steps, settled |-> settled,
     hash |-> hash, result |-> result]

Idle == Invocation("none", "idle", << >>, << >>, 0, null)

ServiceInit == calls = [c \in 1..MaxCalls |-> Idle]

Init ==
    /\ resources = EmptyTable
    /\ now = StartTime
    /\ last = NoCall
    /\ WalletInit
    /\ ServiceInit

\* The block prologue advances the chain clock between transactions.
Tick ==
    /\ now < MaxTime
    /\ now' = now + 1
    /\ last' = NoCall
    /\ UNCHANGED <<resources, walletvars, servicevars>>

\* ------------------------------------------------------------- initialize
NewSystem(admin_addr, time) ==
    [admin |-> admin_addr,
     users |-> TableAdd(EmptyTable, admin_addr,
                  User(admin_addr, SYSTEM_ADMIN_NAME, USER_TYPE_ADMIN, time)),
     attendance_records |-> EmptyTable,
     daily_attendance |-> TableAdd(EmptyTable, admin_addr, EmptyTable),
     user_registration_events |-> << >>,
     attendance_marked_events |-> << >>]

\* Variant: a repeated initialize republishes a fresh AttendanceSystem.
initialize_republish(admin) ==
    /\ admin \in DOMAIN resources \/ NumSystems < MaxSystems
    /\ last' = Call("initialize", admin, 0, 0, FALSE, 0, 0, EXECUTED)
    /\ resources' = (admin :> NewSystem(admin, now)) @@ resources
    /\ UNCHANGED <<now, walletvars, servicevars>>

initialize(admin) ==
    LET admin_addr == admin
        attendance_system == NewSystem(admin_addr, now)
        \* move_to(admin, attendance_system) aborts when the signer already
        \* holds an AttendanceSystem
        abort == IF admin_addr \in DOMAIN resources
                 THEN RESOURCE_ALREADY_EXISTS ELSE EXECUTED
    IN  /\ abort = EXECUTED => NumSystems < MaxSystems
        /\ last' = Call("initialize", admin, 0, 0, FALSE, 0, 0, abort)
        /\ resources' = IF abort = EXECUTED
                        THEN TableAdd(resources, admin_addr, attendance_system)
                        ELSE resources
        /\ UNCHANGED <<now, walletvars, servicevars>>

\* ---------------------------------------------------------- register_user
\* Variant: no check that the address is still unregistered.
register_user_abort_reregister(user_addr, user_type) ==
    IF ~SystemExists THEN MISSING_DATA
    ELSE IF ~(user_type = USER_TYPE_STUDENT \/ user_type = USER_TYPE_TEACHER)
         THEN E_INVALID_USER_TYPE
    ELSE EXECUTED

\* Variant: the role check is a range check that lets USER_TYPE_ADMIN through.
register_user_abort_admin_allowed(user_addr, user_type) ==
    IF ~SystemExists THEN MISSING_DATA
    ELSE IF ~(user_type >= USER_TYPE_STUDENT /\ user_type <= USER_TYPE_ADMIN)
         THEN E_INVALID_USER_TYPE
    ELSE IF user_addr \in DOMAIN System.users THEN E_ALREADY_REGISTERED
    ELSE EXECUTED

\* Variant: the already-registered check comes before the role check.
register_user_abort_registered_first(user_addr, user_type) ==
    IF ~SystemExists THEN MISSING_DATA
    ELSE IF user_addr \in DOMAIN System.users THEN E_ALREADY_REGISTERED
    ELSE IF ~(user_type = USER_TYPE_STUDENT \/ user_type = USER_TYPE_TEACHER)
         THEN E_INVALID_USER_TYPE
    ELSE EXECUTED

register_user_abort(user_addr, user_type) ==
    IF ~SystemExists THEN MISSING_DATA
    ELSE IF ~(user_type = USER_TYPE_STUDENT \/ user_type = USER_TYPE_TEACHER)
         THEN E_INVALID_USER_TYPE
    ELSE IF user_addr \in DOMAIN System.users THEN E_ALREADY_REGISTERED
    ELSE EXECUTED

\* Variant: no registration event is emitted.
register_user_effect_no_event(s, user_addr, name, user_type, time) ==
    [s EXCEPT
       !.users = TableAdd(@, user_addr, User(user_addr, name, user_type, time)),
       !.daily_attendance = TableAdd(@, user_addr, EmptyTable)]

\* Variant: the user is added without its attendance sub-table.
register_user_effect_no_subtable(s, user_addr, name, user_type, time) ==
    [s EXCEPT
       !.users = TableAdd(@, user_addr, User(user_addr, name, user_type, time)),
       !.user_registration_events =
           Append(@, UserRegistrationEvent(user_addr, name, user_type, time))]

register_user_effect(s, user_addr, name, user_type, time) ==
    [s EXCEPT
       !.users = TableAdd(@, user_addr, User(user_addr, name, user_type, time)),
       !.daily_attendance = TableAdd(@, user_addr, EmptyTable),
       !.user_registration_events =
           Append(@, UserRegistrationEvent(user_addr, name, user_type, time))]

register_user(account, name, user_type) ==
    LET user_addr == account
        abort == register_user_abort(user_addr, user_type)
    IN  /\ abort = EXECUTED => NumUsers < MaxUsers
        /\ last' = Call("register_user", account, 0, 0, FALSE, name, user_type,
                        abort)
        /\ resources' =
             IF abort = EXECUTED
             THEN [resources EXCEPT ![wenidi_addr] =
                     register_user_effect(@, user_addr, name, user_type, now)]
             ELSE resources
        /\ UNCHANGED <<now, walletvars, servicevars>>

\* -------------------------------------------------------- mark_attendance
\* Variant: the duplicate check looks in the marker's sub-table instead of the
\* subject's.
mark_attendance_abort_marker_table(marker_addr, user_address, date) ==
    IF ~SystemExists THEN MISSING_DATA
    ELSE IF ~(\/ marker_addr = user_address
              \/ is_admin(marker_addr, System.users)
              \/ is_teacher(marker_addr, System.users))
         THEN E_NOT_AUTHORIZED
    ELSE IF user_address \notin DOMAIN System.users THEN E_USER_NOT_FOUND
    ELSE IF user_address \notin DOMAIN System.daily_attendance
         THEN SMART_TABLE_ENOT_FOUND
    ELSE IF /\ marker_addr \in DOMAIN System.daily_attendance
            /\ date \in DOMAIN System.daily_attendance[marker_addr]
         THEN E_ATTENDANCE_ALREADY_MARKED
    ELSE EXECUTED

\* Variant: no check that the subject is registered.
mark_attendance_abort_no_user_check(marker_addr, user_address, date) ==
    IF ~SystemExists THEN MISSING_DATA
    ELSE IF ~(\/ marker_addr = user_address
              \/ is_admin(marker_addr, System.users)
              \/ is_teacher(marker_addr, System.users))
         THEN E_NOT_AUTHORIZED
    ELSE IF user_address \notin DOMAIN System.daily_attendance
         THEN SMART_TABLE_ENOT_FOUND
    ELSE IF date \in DOMAIN System.daily_attendance[user_address]
         THEN E_ATTENDANCE_ALREADY_MARKED
    ELSE EXECUTED

\* Variant: no duplicate check, a second mark replaces the record (upsert).
mark_attendance_abort_upsert(marker_addr, user_address, date) ==
    IF ~SystemExists THEN MISSING_DATA
    ELSE IF ~(\/ marker_addr = user_address
              \/ is_admin(marker_addr, System.users)
              \/ is_teacher(marker_addr, System.users))
         THEN E_NOT_AUTHORIZED
    ELSE IF user_address \notin DOMAIN System.users THEN E_USER_NOT_FOUND
    ELSE IF user_address \notin DOMAIN System.daily_attendance
         THEN SMART_TABLE_ENOT_FOUND
    ELSE EXECUTED

mark_attendance_abort(marker_addr, user_address, date) ==
    IF ~SystemExists THEN MISSING_DATA
    ELSE IF ~(\/ marker_addr = user_address
              \/ is_admin(marker_addr, System.users)
              \/ is_teacher(marker_addr, System.users))
         THEN E_NOT_AUTHORIZED
    ELSE IF user_address \notin DOMAIN System.users THEN E_USER_NOT_FOUND
    ELSE IF user_address \notin DOMAIN System.daily_attendance
         THEN SMART_TABLE_ENOT_FOUND
    ELSE IF date \in DOMAIN System.daily_attendance[user_address]
         THEN E_ATTENDANCE_ALREADY_MARKED
    ELSE EXECUTED

\* Variant: the record names its subject, not the signer, as marked_by.
mark_attendance_effect_marked_by_subject(s, marker_addr, user_address, date, is_present, time) ==
    LET attendance_record ==
            AttendanceRecord(user_address, date, time, 0, is_present,
                             user_address)
        daily_records == IF date \in DOMAIN s.attendance_records
                         THEN s.attendance_records[date]
                         ELSE << >>
    IN [s EXCEPT
          !.daily_attendance[user_address] =
              TableAdd(@, date, attendance_record),
          !.attendance_records =
              (date :> Append(daily_records, attendance_record)) @@ @,
          !.attendance_marked_events =
              Append(@, AttendanceMarkedEvent(user_address, date, time,
                                              is_present, marker_addr, time))]

\* Variant: the new record is put at the front of the by-date vector.
mark_attendance_effect_push_front(s, marker_addr, user_address, date, is_present, time) ==
    LET attendance_record ==
            AttendanceRecord(user_address, date, time, 0, is_present,
                             marker_addr)
        daily_records == IF date \in DOMAIN s.attendance_records
                         THEN s.attendance_records[date]
                         ELSE << >>
    IN [s EXCEPT
          !.daily_attendance[user_address] =
              TableAdd(@, date, attendance_record),
          !.attendance_records =
              (date :> (<<attendance_record>> \o daily_records)) @@ @,
          !.attendance_marked_events =
              Append(@, AttendanceMarkedEvent(user_address, date, time,
                                              is_present, marker_addr, time))]

\* Variant: the new record is created with its check-out time already set.
mark_attendance_effect_checked_out(s, marker_addr, user_address, date, is_present, time) ==
    LET attendance_record ==
            AttendanceRecord(user_address, date, time, time, is_present,
                             marker_addr)
        daily_records == IF date \in DOMAIN s.attendance_records
                         THEN s.attendance_records[date]
                         ELSE << >>
    IN [s EXCEPT
          !.daily_attendance[user_address] =
              TableAdd(@, date, attendance_record),
          !.attendance_records =
              (date :> Append(daily_records, attendance_record)) @@ @,
          !.attendance_marked_events =
              Append(@, AttendanceMarkedEvent(user_address, date, time,
                                              is_present, marker_addr, time))]

\* Variant: the record is filed in the marker's sub-table, not the subject's.
mark_attendance_effect_filed_under_marker(s, marker_addr, user_address, date, is_present, time) ==
    LET attendance_record ==
            AttendanceRecord(user_address, date, time, 0, is_present,
                             marker_addr)
        daily_records == IF date \in DOMAIN s.attendance_records
                         THEN s.attendance_records[date]
                         ELSE << >>
    IN [s EXCEPT
          !.daily_attendance[marker_addr] =
              TableAdd(@, date, attendance_record),
          !.attendance_records =
              (date :> Append(daily_records, attendance_record)) @@ @,
          !.attendance_marked_events =
              Append(@, AttendanceMarkedEvent(user_address, date, time,
                                              is_present, marker_addr, time))]

mark_attendance_effect(s, marker_addr, user_address, date, is_present, time) ==
    LET attendance_record ==
            AttendanceRecord(user_address, date, time, 0, is_present,
                             marker_addr)
        daily_records == IF date \in DOMAIN s.attendance_records
                         THEN s.attendance_records[date]
                         ELSE << >>
    IN [s EXCEPT
          !.daily_attendance[user_address] =
              TableAdd(@, date, attendance_record),
          !.attendance_records =
              (date :> Append(daily_records, attendance_record)) @@ @,
          !.attendance_marked_events =
              Append(@, AttendanceMarkedEvent(user_address, date, time,
                                              is_present, marker_addr, time))]

\* Variant: the event is emitted before the duplicate check, and stays.
mark_attendance_emit_before_check(marker, user_address, date, is_present) ==
    LET abort == mark_attendance_abort(marker, user_address, date)
    IN  /\ abort = EXECUTED => NumRecords < MaxRecords
        /\ last' = Call("mark_attendance", marker, user_address, date,
                        is_present, 0, 0, abort)
        /\ resources' =
             IF abort = EXECUTED
             THEN [resources EXCEPT ![wenidi_addr] =
                     mark_attendance_effect(@, marker, user_address, date,
                                            is_present, now)]
             ELSE IF abort = E_ATTENDANCE_ALREADY_MARKED
             THEN [resources EXCEPT
                     ![wenidi_addr].attendance_marked_events =
                        Append(@, AttendanceMarkedEvent(user_address, date, now,
                                                        is_present, marker,
                                                        now))]
             ELSE resources
        /\ UNCHANGED <<now, walletvars, servicevars>>

mark_attendance(marker, user_address, date, is_present) ==
    LET marker_addr == marker
        abort == mark_attendance_abort(marker_addr, user_address, date)
    IN  /\ abort = EXECUTED => NumRecords < MaxRecords
        /\ last' = Call("mark_attendance", marker, user_address, date,
                        is_present, 0, 0, abort)
        /\ resources' =
             IF abort = EXECUTED
             THEN [resources EXCEPT ![wenidi_addr] =
                     mark_attendance_effect(@, marker_addr, user_address, date,
                                            is_present, now)]
             ELSE resources
        /\ UNCHANGED <<now, walletvars, servicevars>>

\* ---------------------------------------------------------- mark_checkout
\* Variant: a record that is already checked out cannot be checked out again.
mark_checkout_abort_once(user_addr, date) ==
    IF ~SystemExists THEN MISSING_DATA
    ELSE IF user_addr \notin DOMAIN System.daily_attendance
         THEN SMART_TABLE_ENOT_FOUND
    ELSE IF date \notin DOMAIN System.daily_attendance[user_addr]
         THEN E_USER_NOT_FOUND
    ELSE IF System.daily_attendance[user_addr][date].check_out_time # 0
         THEN E_ATTENDANCE_ALREADY_MARKED
    ELSE IF date \notin DOMAIN System.attendance_records
         THEN SMART_TABLE_ENOT_FOUND
    ELSE EXECUTED

mark_checkout_abort(user_addr, date) ==
    IF ~SystemExists THEN MISSING_DATA
    ELSE IF user_addr \notin DOMAIN System.daily_attendance
         THEN SMART_TABLE_ENOT_FOUND
    ELSE IF date \notin DOMAIN System.daily_attendance[user_addr]
         THEN E_USER_NOT_FOUND
    ELSE IF date \notin DOMAIN System.attendance_records
         THEN SMART_TABLE_ENOT_FOUND
    ELSE EXECUTED

\* Variant: the scan matches the entry by who marked it, not by its subject.
RECURSIVE checkout_scan_by_marker(_, _, _, _)
checkout_scan_by_marker(daily_records, i, user_addr, time) ==
    IF i > Len(daily_records) THEN daily_records
    ELSE IF daily_records[i].marked_by = user_addr
         THEN [daily_records EXCEPT ![i].check_out_time = time]
    ELSE checkout_scan_by_marker(daily_records, i + 1, user_addr, time)

\* The while loop of mark_checkout from index i (1-based here): the first
\* entry whose user_address is user_addr gets the check-out time, then break.
RECURSIVE checkout_scan(_, _, _, _)
checkout_scan(daily_records, i, user_addr, time) ==
    IF i > Len(daily_records) THEN daily_records
    ELSE IF daily_records[i].user_address = user_addr
         THEN [daily_records EXCEPT ![i].check_out_time = time]
    ELSE checkout_scan(daily_records, i + 1, user_addr, time)

\* Variant: the scan of the by-date vector starts one entry too late.
mark_checkout_effect_scan_from_second(s, user_addr, date, time) ==
    [s EXCEPT
       !.daily_attendance[user_addr][date].check_out_time = time,
       !.attendance_records[date] = checkout_scan(@, 2, user_addr, time)]

\* Variant: only the per-account copy gets the check-out time.
mark_checkout_effect_by_account_only(s, user_addr, date, time) ==
    [s EXCEPT !.daily_attendance[user_addr][date].check_out_time = time]

\* Variant: the check-out also emits an AttendanceMarkedEvent.
mark_checkout_effect_emit_event(s, user_addr, date, time) ==
    [s EXCEPT
       !.daily_attendance[user_addr][date].check_out_time = time,
       !.attendance_records[date] = checkout_scan(@, 1, user_addr, time),
       !.attendance_marked_events =
           Append(@, AttendanceMarkedEvent(user_addr, date, time, TRUE,
                                           user_addr, time))]

mark_checkout_effect(s, user_addr, date, time) ==
    [s EXCEPT
       !.daily_attendance[user_addr][date].check_out_time = time,
       !.attendance_records[date] = checkout_scan(@, 1, user_addr, time)]

mark_checkout(user, date) ==
    LET user_addr == user
        abort == mark_checkout_abort(user_addr, date)
    IN  /\ last' = CheckoutCall(user, date, abort)
        /\ resources' =
             IF abort = EXECUTED
             THEN [resources EXCEPT ![wenidi_addr] =
                     mark_checkout_effect(@, user_addr, date, now)]
             ELSE resources
        /\ UNCHANGED <<now, walletvars, servicevars>>

Next ==
    \/ Tick
    \/ \E admin \in Address : initialize(admin)
    \/ \E account \in Address, name \in Names, user_type \in UserTypeArgs :
          register_user(account, name, user_type)
    \/ \E marker \in Address, user_address \in AddressArgs, date \in Dates,
          is_present \in BOOLEAN :
          mark_attendance(marker, user_address, date, is_present)
    \/ \E user \in Address, date \in Dates : mark_checkout(user, date)

Spec == Init /\ [][Next]_vars

\* ======================================================================
\* WalletContextProvider: services/Context/WalletContext.js
\*
\* An async function runs up to its await in one step and registers a
\* promise; the rest of the function is the step that settles the promise.
\* A promise keeps what the function's closure captured when it was called.
\* Promises settle in any order.  Every AptosService method catches its
\* errors and resolves with an object carrying success, so the catch blocks
\* around those calls are never entered.
\* ======================================================================
\* The keys of userTypeMap (aptosService.js), the values registerUser takes.
RegisterTypes == {"student", "teacher", "admin"}

Promise(kind, address, type, from) ==
    [kind |-> kind, address |-> address, type |-> type, from |-> from]

\* const typeMap = { 1: 'student', 2: 'teacher', 3: 'admin' }; typeMap[n]
typeMap(n) ==
    CASE n = 1 -> "student"
      [] n = 2 -> "teacher"
      [] n = 3 -> "admin"
      [] OTHER -> "undefined"

\* The data of a successful AptosService.getUserInfo, built from the User
\* struct the get_user_info view returned.
UserInfoData(u) ==
    [address |-> u.address, name |-> u.name, userType |-> u.user_type,
     registrationTime |-> u.registration_time]

\* React runs the effect of a render before it handles the next update, so
\* every other step finds the effect already run for the current values.
EffectsFlushed == effectDeps = <<connected, walletAccount>>

\* <WalletProvider autoConnect={true}>: the adapter connects by itself.
autoConnect(a) ==
    /\ EffectsFlushed
    /\ ~connected
    /\ connected' = TRUE
    /\ walletAccount' = Account(a)
    /\ UNCHANGED <<userType, userInfo, loading, error, effectDeps, promises>>
    /\ UNCHANGED <<ledgervars, servicevars>>

\* The wallet itself drops the connection: connected and account of
\* useWallet() become false and null.
walletDisconnected ==
    /\ EffectsFlushed
    /\ connected
    /\ connected' = FALSE
    /\ walletAccount' = null
    /\ UNCHANGED <<userType, userInfo, loading, error, effectDeps, promises>>
    /\ UNCHANGED <<ledgervars, servicevars>>

\* useEffect(..., [connected, account]): runs after a render in which a
\* dependency changed.
useEffect ==
    /\ <<connected, walletAccount>> # effectDeps
    /\ effectDeps' = <<connected, walletAccount>>
    /\ IF connected /\ walletAccount # null
       THEN \* loadUserInfo() up to its await
            /\ Cardinality(promises) < MaxPromises
            /\ loading' = TRUE
            /\ promises' = promises \cup
                  {Promise("getUserInfo", walletAccount.address, nullString,
                           "loadUserInfo")}
            /\ UNCHANGED <<userInfo, userType>>
       ELSE /\ userInfo' = null
            /\ userType' = nullString
            /\ UNCHANGED <<loading, promises>>
    /\ UNCHANGED <<connected, walletAccount, error>>
    /\ UNCHANGED <<ledgervars, servicevars>>

\* loadUserInfo after `await AptosService.getUserInfo(account.address)`,
\* called from the effect or from registerUser.
loadUserInfo_settle(p, success, user) ==
    /\ EffectsFlushed
    /\ p \in promises
    /\ p.kind = "getUserInfo"
    /\ user.address = p.address
    /\ IF success
       THEN /\ userInfo' = UserInfoData(user)
            /\ userType' = typeMap(UserInfoData(user).userType)
       ELSE UNCHANGED <<userInfo, userType>>
    /\ loading' = FALSE
    /\ promises' = promises \ {p}
    /\ UNCHANGED <<connected, walletAccount, error, effectDeps>>
    /\ UNCHANGED <<ledgervars, servicevars>>

connectWallet ==
    /\ EffectsFlushed
    /\ Cardinality(promises) < MaxPromises
    /\ loading' = TRUE
    /\ error' = nullString
    /\ promises' = promises \cup
          {Promise("connect", 0, nullString, "connectWallet")}
    /\ UNCHANGED <<connected, walletAccount, userType, userInfo, effectDeps>>
    /\ UNCHANGED <<ledgervars, servicevars>>

\* connectWallet after `await connect()`
connectWallet_settle(p, success, a) ==
    /\ EffectsFlushed
    /\ p \in promises
    /\ p.kind = "connect"
    /\ IF success
       THEN /\ connected' = TRUE
            /\ walletAccount' = Account(a)
            /\ UNCHANGED error
       ELSE /\ error' = "Failed to connect wallet"
            /\ UNCHANGED <<connected, walletAccount>>
    /\ loading' = FALSE
    /\ promises' = promises \ {p}
    /\ UNCHANGED <<userType, userInfo, effectDeps>>
    /\ UNCHANGED <<ledgervars, servicevars>>

disconnectWallet ==
    /\ EffectsFlushed
    /\ Cardinality(promises) < MaxPromises
    /\ promises' = promises \cup
          {Promise("disconnect", 0, nullString, "disconnectWallet")}
    /\ UNCHANGED <<connected, walletAccount, userType, userInfo, loading,
                   error, effectDeps>>
    /\ UNCHANGED <<ledgervars, servicevars>>

\* disconnectWallet after `await disconnect()`
disconnectWallet_settle(p, success) ==
    /\ EffectsFlushed
    /\ p \in promises
    /\ p.kind = "disconnect"
    /\ IF success
       THEN /\ connected' = FALSE
            /\ walletAccount' = null
            /\ userInfo' = null
            /\ userType' = nullString
            /\ error' = nullString
       ELSE UNCHANGED <<connected, walletAccount, userInfo, userType, error>>
    /\ promises' = promises \ {p}
    /\ UNCHANGED <<loading, effectDeps>>
    /\ UNCHANGED <<ledgervars, servicevars>>

registerUser(name, type) ==
    /\ EffectsFlushed
    /\ IF walletAccount = null
       THEN /\ error' = "Please connect your wallet first"
            /\ UNCHANGED <<loading, promises>>
       ELSE /\ Cardinality(promises) < MaxPromises
            /\ loading' = TRUE
            /\ promises' = promises \cup
                  {Promise("registerUser", walletAccount.address, type,
                           "registerUser")}
            /\ UNCHANGED error
    /\ UNCHANGED <<connected, walletAccount, userType, userInfo, effectDeps>>
    /\ UNCHANGED <<ledgervars, servicevars>>

\* registerUser after `await AptosService.registerUser(account, name, type)`:
\* on success setUserType(type) and loadUserInfo() with the account of the
\* render registerUser was called in.
registerUser_settle(p, success) ==
    /\ EffectsFlushed
    /\ p \in promises
    /\ p.kind = "registerUser"
    /\ IF success
       THEN /\ userType' = p.type
            /\ loading' = TRUE
            /\ promises' = (promises \ {p}) \cup
                  {Promise("getUserInfo", p.address, nullString,
                           "registerUser")}
       ELSE /\ loading' = FALSE
            /\ promises' = promises \ {p}
            /\ UNCHANGED userType
    /\ UNCHANGED <<connected, walletAccount, userInfo, error, effectDeps>>
    /\ UNCHANGED <<ledgervars, servicevars>>

NextWallet ==
    \/ \E a \in Address : autoConnect(a)
    \/ walletDisconnected
    \/ useEffect
    \/ \E p \in promises, success \in BOOLEAN, n \in Names,
          t \in UserTypeArgs :
          loadUserInfo_settle(p, success, User(p.address, n, t, StartTime))
    \/ connectWallet
    \/ \E p \in promises, success \in BOOLEAN, a \in Address :
          connectWallet_settle(p, success, a)
    \/ disconnectWallet
    \/ \E p \in promises, success \in BOOLEAN :
          disconnectWallet_settle(p, success)
    \/ \E name \in Names, type \in RegisterTypes : registerUser(name, type)
    \/ \E p \in promises, success \in BOOLEAN : registerUser_settle(p, success)

SpecWallet == Init /\ [][NextWallet]_vars

\* ======================================================================
\* AptosService, the transaction methods: services/aptosService.js
\*
\* A method runs inside try up to an await in one step; the step that settles
\* the awaited SDK call runs it on to the next await or to its return.  The
\* A rejected SDK call takes the method to its catch block.
\* ======================================================================
Methods == {"initializeSystem", "registerUser", "markAttendance", "markCheckout"}
TransactionSteps == <<"build", "signAndSubmit", "waitForTransaction">>
Hashes == 1..NumHashes
ErrorMessages == 1..NumErrors
TypeErrorMessage == 0   \* "Cannot read properties of null (reading 'address')"
undefined == -1         \* the message of a thrown value that has none
\* What an SDK call rejects with: an Error carrying a message, or a value
\* that is not an Error (a string); never null.
Error(message) == [message |-> message]
Rejections == {Error(m) : m \in ErrorMessages} \cup {[string |-> 1]}
AccountArgs == {null} \cup {Account(a) : a \in Address}

\* return { success: true, hash: executedTransaction.hash }
Success(hash) == [success |-> TRUE, hash |-> hash]
\* return { success: false, error: error.message }
Failure(message) == [success |-> FALSE, error |-> message]

\* The beginning of each of the four methods: `sender: account.address`
\* throws a TypeError for a null account, which the catch block turns into a
\* failure; otherwise transaction.build.simple is awaited.
begin(method, acct) ==
    IF acct = null
    THEN Invocation(method, "returned", << >>, << >>, 0,
                    Failure(TypeErrorMessage))
    ELSE Invocation(method, "build", <<"build">>, << >>, 0, null)

initializeSystem(c, acct) ==
    /\ calls[c].pc \in {"idle", "returned"}
    /\ calls' = [calls EXCEPT ![c] = begin("initializeSystem", acct)]
    /\ UNCHANGED <<ledgervars, walletvars>>

AptosService_registerUser(c, acct, name, type) ==
    /\ calls[c].pc \in {"idle", "returned"}
    /\ calls' = [calls EXCEPT ![c] = begin("registerUser", acct)]
    /\ UNCHANGED <<ledgervars, walletvars>>

markAttendance(c, acct, userAddress, date, isPresent) ==
    /\ calls[c].pc \in {"idle", "returned"}
    /\ calls' = [calls EXCEPT ![c] = begin("markAttendance", acct)]
    /\ UNCHANGED <<ledgervars, walletvars>>

markCheckout(c, acct, date) ==
    /\ calls[c].pc \in {"idle", "returned"}
    /\ calls' = [calls EXCEPT ![c] = begin("markCheckout", acct)]
    /\ UNCHANGED <<ledgervars, walletvars>>

\* catch (error) { return { success: false, error: error.message } }:
\* reading .message of null throws out of the catch block; a thrown value
\* that is not an Error has no message.
catch(k, e) ==
    IF e = null
    THEN [k EXCEPT !.pc = "threw", !.settled = Append(@, "rejected")]
    ELSE [k EXCEPT !.pc = "returned",
                   !.settled = Append(@, "rejected"),
                   !.result = Failure(IF "message" \in DOMAIN e
                                      THEN e.message ELSE undefined)]

\* `await this.aptos.transaction.build.simple(...)` settles.
build_settle(c, fulfilled, e) ==
    /\ calls[c].pc = "build"
    /\ calls' = [calls EXCEPT ![c] =
          IF fulfilled
          THEN [@ EXCEPT !.pc = "signAndSubmit",
                         !.steps = Append(@, "signAndSubmit"),
                         !.settled = Append(@, "fulfilled")]
          ELSE catch(@, e)]
    /\ UNCHANGED <<ledgervars, walletvars>>

\* Variant: the method returns success as soon as the transaction is
\* submitted, without waiting for it.
signAndSubmit_settle_no_wait(c, fulfilled, hash, e) ==
    /\ calls[c].pc = "signAndSubmit"
    /\ calls' = [calls EXCEPT ![c] =
          IF fulfilled
          THEN [@ EXCEPT !.pc = "returned",
                         !.settled = Append(@, "fulfilled"),
                         !.hash = hash,
                         !.result = Success(hash)]
          ELSE catch(@, e)]
    /\ UNCHANGED <<ledgervars, walletvars>>

\* `await this.aptos.signAndSubmitTransaction(...)` settles.
signAndSubmit_settle(c, fulfilled, hash, e) ==
    /\ calls[c].pc = "signAndSubmit"
    /\ calls' = [calls EXCEPT ![c] =
          IF fulfilled
          THEN [@ EXCEPT !.pc = "waitForTransaction",
                         !.steps = Append(@, "waitForTransaction"),
                         !.settled = Append(@, "fulfilled"),
                         !.hash = hash]
          ELSE catch(@, e)]
    /\ UNCHANGED <<ledgervars, walletvars>>

\* `await this.aptos.waitForTransaction({transactionHash: committedTxn.hash})`
\* settles; the executed transaction it resolves with carries that hash.
waitForTransaction_settle(c, fulfilled, e) ==
    /\ calls[c].pc = "waitForTransaction"
    /\ calls' = [calls EXCEPT ![c] =
          IF fulfilled
          THEN [@ EXCEPT !.pc = "returned",
                         !.settled = Append(@, "fulfilled"),
                         !.result = Success(calls[c].hash)]
          ELSE catch(@, e)]
    /\ UNCHANGED <<ledgervars, walletvars>>

NextService ==
    \/ \E c \in 1..MaxCalls, acct \in AccountArgs : initializeSystem(c, acct)
    \/ \E c \in 1..MaxCalls, acct \in AccountArgs, name \in Names,
          type \in RegisterTypes :
          AptosService_registerUser(c, acct, name, type)
    \/ \E c \in 1..MaxCalls, acct \in AccountArgs, userAddress \in Address,
          date \in Dates, isPresent \in BOOLEAN :
          markAttendance(c, acct, userAddress, date, isPresent)
    \/ \E c \in 1..MaxCalls, acct \in AccountArgs, date \in Dates :
          markCheckout(c, acct, date)
    \/ \E c \in 1..MaxCalls, fulfilled \in BOOLEAN,
          e \in Rejections :
          build_settle(c, fulfilled, e)
    \/ \E c \in 1..MaxCalls, fulfilled \in BOOLEAN, hash \in Hashes,
          e \in Rejections :
          signAndSubmit_settle(c, fulfilled, hash, e)
    \/ \E c \in 1..MaxCalls, fulfilled \in BOOLEAN,
          e \in Rejections :
          waitForTransaction_settle(c, fulfilled, e)

SpecService == Init /\ [][NextService]_vars

\* ======================================================================
\* Properties of the ledger
\* ======================================================================

\* Positions in the by-date vector of date whose record is about user_address
Positions(date, user_address) ==
    {i \in DOMAIN get_daily_attendance(date).value :
        get_daily_attendance(date).value[i].user_address = user_address}

HasRecord(user_address, date) ==
    get_user_attendance(user_address, date).abort = EXECUTED

\* user_address is registered with the given role.
HasRole(user_address, user_type) ==
    /\ get_user_info(user_address).abort = EXECUTED
    /\ get_user_info(user_address).value.user_type = user_type

\* The marker is the subject, a registered Admin or a registered Teacher.
Authorized(marker_addr, user_address) ==
    \/ marker_addr = user_address
    \/ HasRole(marker_addr, USER_TYPE_ADMIN)
    \/ HasRole(marker_addr, USER_TYPE_TEACHER)

\* C1: for every (subject account, date) pair at most one AttendanceRecord
\* exists: the by-date vector of a date never holds two entries with the same
\* subject, and a by-date entry is filed under its own date.
C1_AtMostOneRecord ==
    SystemExists =>
        \A date \in Dates, user_address \in Address :
            /\ Cardinality(Positions(date, user_address)) <= 1
            /\ \A i \in Positions(date, user_address) :
                  get_daily_attendance(date).value[i].date = date

\* C1 witness: a date holds two records and a further mark_attendance for one
\* of the subjects has just been rejected.
C1_Witness ==
    /\ SystemExists
    /\ \E date \in Dates : Len(get_daily_attendance(date).value) = 2
    /\ last.op = "mark_attendance"
    /\ last.abort = E_ATTENDANCE_ALREADY_MARKED

\* C2: mark_attendance by an authorized marker for a registered subject and a
\* date that already has a record aborts with E_ATTENDANCE_ALREADY_MARKED,
\* whoever the marker is and whatever is_present is, and changes nothing (both
\* indices, users, event logs).
C2_SecondMarkRejected ==
    [][ ( /\ last'.op = "mark_attendance"
          /\ SystemExists
          /\ Authorized(last'.caller, last'.user_address)
          /\ get_user_info(last'.user_address).abort = EXECUTED
          /\ HasRecord(last'.user_address, last'.date) )
        => ( /\ last'.abort = E_ATTENDANCE_ALREADY_MARKED
             /\ resources' = resources ) ]_vars

\* C2 witness: a second mark by a marker other than the one who made the
\* record, with the opposite presence flag, was rejected.
C2_Witness ==
    /\ last.op = "mark_attendance"
    /\ last.abort = E_ATTENDANCE_ALREADY_MARKED
    /\ HasRecord(last.user_address, last.date)
    /\ LET r == get_user_attendance(last.user_address, last.date).value
       IN  r.marked_by # last.caller /\ r.is_present # last.is_present

\* C3: dual-index consistency: the by-date vector of d has an entry for a
\* exactly when the per-account table has a record for (a, d), and the two
\* copies agree in every field.
C3_DualIndex ==
    SystemExists =>
        \A date \in Dates, user_address \in Address :
            /\ (Positions(date, user_address) # {})
                  <=> HasRecord(user_address, date)
            /\ \A i \in Positions(date, user_address) :
                  /\ HasRecord(user_address, date)
                  /\ get_daily_attendance(date).value[i]
                        = get_user_attendance(user_address, date).value

\* C3 witness: the second entry of a by-date vector has been checked out.
C3_Witness ==
    /\ SystemExists
    /\ \E date \in Dates :
          /\ Len(get_daily_attendance(date).value) = 2
          /\ get_daily_attendance(date).value[2].check_out_time # 0

\* C4: mark_attendance by a marker that is not the subject and is neither a
\* registered Admin nor a registered Teacher aborts with E_NOT_AUTHORIZED,
\* whether or not the subject is registered or already marked, and changes
\* nothing.
C4_NotAuthorized ==
    [][ ( /\ last'.op = "mark_attendance"
          /\ SystemExists
          /\ ~Authorized(last'.caller, last'.user_address) )
        => ( /\ last'.abort = E_NOT_AUTHORIZED
             /\ resources' = resources ) ]_vars

\* C4 witness: a registered Student was refused when marking another account.
C4_Witness ==
    /\ last.op = "mark_attendance"
    /\ last.abort = E_NOT_AUTHORIZED
    /\ HasRole(last.caller, USER_TYPE_STUDENT)
    /\ last.caller # last.user_address
\* C5: mark_checkout aborts with E_USER_NOT_FOUND (the code the module uses
\* for "no record found") whenever no record exists for (caller, date),
\* whether the caller is registered or not, and changes nothing.
C5_CheckoutWithoutRecord ==
    [][ ( /\ last'.op = "mark_checkout"
          /\ SystemExists
          /\ ~HasRecord(last'.caller, last'.date) )
        => ( /\ last'.abort = E_USER_NOT_FOUND
             /\ resources' = resources ) ]_vars

\* C6: after mark_checkout(caller, date) succeeds, the per-account record and
\* the caller's entry in the by-date vector carry the same non-zero check-out
\* time, the time of the call.
C6_CheckoutBothCopies ==
    (last.op = "mark_checkout" /\ last.abort = EXECUTED) =>
        /\ HasRecord(last.caller, last.date)
        /\ get_user_attendance(last.caller, last.date).value.check_out_time
              = now
        /\ now # 0
        /\ Positions(last.date, last.caller) # {}
        /\ \A i \in Positions(last.date, last.caller) :
              get_daily_attendance(last.date).value[i].check_out_time = now

\* C6 witness: the caller of a successful mark_checkout is the second entry
\* of the by-date vector.
C6_Witness ==
    /\ last.op = "mark_checkout"
    /\ last.abort = EXECUTED
    /\ Positions(last.date, last.caller) = {2}

\* C7: once an initialize call has succeeded, every later initialize call, by
\* the same or any other signer, aborts and changes nothing.
C7_InitializeOnce ==
    [][ ( /\ last'.op = "initialize"
          /\ NumSystems > 0 )
        => ( /\ last'.abort = RESOURCE_ALREADY_EXISTS
             /\ resources' = resources ) ]_vars

\* C8: after initialize(A) succeeds on an uninitialized deployment, the
\* AttendanceSystem the other entry functions and views operate on has
\* admin = A, A is registered as Admin, no other account exists and both
\* attendance indices and the event logs are empty.
C8_InitializeSetsAdmin ==
    (last.op = "initialize" /\ last.abort = EXECUTED /\ NumSystems = 1) =>
        /\ get_admin_address.abort = EXECUTED
        /\ get_admin_address.value = last.caller
        /\ is_user_registered(last.caller).value = TRUE
        /\ HasRole(last.caller, USER_TYPE_ADMIN)
        /\ \A a \in Address \ {last.caller} :
              is_user_registered(a).value = FALSE
        /\ \A a \in Address, date \in Dates : ~HasRecord(a, date)
        /\ \A date \in Dates : get_daily_attendance(date).value = << >>
        /\ System.user_registration_events = << >>
        /\ System.attendance_marked_events = << >>

\* C9: register_user by an unregistered address with role Student or Teacher
\* succeeds, after which is_user_registered is true and get_user_info returns
\* the address, name, role and the time of the call; register_user by a
\* registered address with role Student or Teacher aborts with
\* E_ALREADY_REGISTERED and leaves the stored account unchanged.
C9_Register ==
    [][ ( /\ last'.op = "register_user"
          /\ SystemExists
          /\ last'.user_type \in {USER_TYPE_STUDENT, USER_TYPE_TEACHER} )
        => IF is_user_registered(last'.caller).value
           THEN /\ last'.abort = E_ALREADY_REGISTERED
                /\ get_user_info(last.caller)' = get_user_info(last'.caller)
                /\ resources' = resources
           ELSE /\ last'.abort = EXECUTED
                /\ is_user_registered(last.caller)' = Returned(TRUE)
                /\ get_user_info(last.caller)' =
                      Returned(User(last'.caller, last'.name, last'.user_type,
                                    now)) ]_vars

\* C9 witness: an address registered as one role was refused a second
\* registration asking for the other role.
C9_Witness ==
    /\ last.op = "register_user"
    /\ last.abort = E_ALREADY_REGISTERED
    /\ get_user_info(last.caller).abort = EXECUTED
    /\ get_user_info(last.caller).value.user_type
          \in {USER_TYPE_STUDENT, USER_TYPE_TEACHER} \ {last.user_type}

\* The registered accounts whose role is Admin.
Admins ==
    {a \in Address : HasRole(a, USER_TYPE_ADMIN)}

\* C10: register_user with a role other than Student or Teacher aborts with
\* E_INVALID_USER_TYPE and changes nothing, and in every state of the ledger
\* exactly one account has role Admin, the one in the admin field.
C10_SingleAdmin ==
    /\ [](SystemExists => Admins = {get_admin_address.value})
    /\ [][ ( /\ last'.op = "register_user"
             /\ SystemExists
             /\ last'.user_type
                   \notin {USER_TYPE_STUDENT, USER_TYPE_TEACHER} )
           => ( /\ last'.abort = E_INVALID_USER_TYPE
                /\ resources' = resources ) ]_vars

\* C10 witness: an unregistered address asking for the Admin role was refused
\* while another account was registered beside the admin.
C10_Witness ==
    /\ last.op = "register_user"
    /\ last.abort = E_INVALID_USER_TYPE
    /\ last.user_type = USER_TYPE_ADMIN
    /\ Cardinality(Admins) = 1
    /\ NumUsers = 2
\* C11: across every step the admin field of a published AttendanceSystem
\* keeps its value, and an account once in users is never removed and never
\* changes its address, name, role or registration time.
C11_AdminAndAccountsImmutable ==
    [][ \A r \in DOMAIN resources :
          /\ r \in DOMAIN resources'
          /\ resources'[r].admin = resources[r].admin
          /\ \A a \in DOMAIN resources[r].users :
                /\ a \in DOMAIN resources'[r].users
                /\ resources'[r].users[a] = resources[r].users[a] ]_vars

\* C11 witness: with two accounts registered at different times, a later
\* transaction has committed.
C11_Witness ==
    /\ SystemExists
    /\ NumUsers = 2
    /\ \E a \in Address :
          /\ get_user_info(a).abort = EXECUTED
          /\ get_user_info(a).value.registration_time
                # get_user_info(get_admin_address.value).value.registration_time
    /\ last.op = "mark_checkout"
    /\ last.abort = EXECUTED

\* C12: failure atomicity: a rejected initialize, register_user,
\* mark_attendance or mark_checkout leaves global storage (admin, users, both
\* attendance indices, both event logs) exactly as it was; and after a
\* mark_checkout step, rejected or not, no per-account copy carries a check-out
\* time its by-date copy lacks.
C12_FailureAtomicity ==
    [][ /\ (last'.op # "none" /\ last'.abort # EXECUTED)
              => resources' = resources
        /\ (last'.op = "mark_checkout" /\ SystemExists')
              => \A a \in Address, date \in Dates :
                    HasRecord(a, date)' =>
                       \E i \in Positions(date, a)' :
                          get_daily_attendance(date)'.value[i].check_out_time
                            = get_user_attendance(a, date)'.value.check_out_time
      ]_vars

\* C12 witness: a registered account without a record was refused a checkout
\* while another account's record exists.
C12_Witness ==
    /\ last.op = "mark_checkout"
    /\ last.abort = E_USER_NOT_FOUND
    /\ NumRecords >= 1

\* C13: record lifecycle: a record once created is never removed, a non-zero
\* check-out time never returns to 0, and a record is created with check-out
\* time 0.
C13_RecordLifecycle ==
    [][ SystemExists =>
          \A a \in Address, date \in Dates :
             /\ HasRecord(a, date) =>
                   /\ HasRecord(a, date)'
                   /\ get_user_attendance(a, date).value.check_out_time # 0
                         => get_user_attendance(a, date)'.value.check_out_time
                               # 0
             /\ (~HasRecord(a, date) /\ HasRecord(a, date)') =>
                   get_user_attendance(a, date)'.value.check_out_time = 0
      ]_vars

\* C13 witness: a record created at one time was checked out at a later time.
C13_Witness ==
    /\ last.op = "mark_checkout"
    /\ last.abort = EXECUTED
    /\ LET r == get_user_attendance(last.caller, last.date).value
       IN  r.check_in_time < r.check_out_time
\* C14: checkout is self-only: in any step that changes the check-out time of
\* the record of (S, date), in the per-account table or in the by-date vector,
\* the transaction is mark_checkout(S, date); no other signer, Admin and
\* Teacher included, changes it.
C14_CheckoutSelfOnly ==
    [][ SystemExists =>
          \A S \in Address, date \in Dates :
             (HasRecord(S, date) /\ HasRecord(S, date)') =>
                ( ( \/ get_user_attendance(S, date)'.value.check_out_time
                          # get_user_attendance(S, date).value.check_out_time
                    \/ \E i \in Positions(date, S) :
                          get_daily_attendance(date)'.value[i].check_out_time
                            # get_daily_attendance(date).value[i].check_out_time )
                  => ( /\ last'.op = "mark_checkout"
                       /\ last'.abort = EXECUTED
                       /\ last'.caller = S
                       /\ last'.date = date ) )
      ]_vars

\* C14 witness: S checked out a record that another account had marked, while
\* that other account has a record of its own on the same date.
C14_Witness ==
    /\ last.op = "mark_checkout"
    /\ last.abort = EXECUTED
    /\ get_user_attendance(last.caller, last.date).value.marked_by
          # last.caller
    /\ \E a \in Address \ {last.caller} :
          /\ HasRecord(a, last.date)
          /\ get_user_attendance(a, last.date).value.check_out_time = 0

\* C15: mark_attendance by an authorized marker (the subject itself, a
\* registered Admin or a registered Teacher) for a subject that is not
\* registered aborts with E_USER_NOT_FOUND and creates no record and no event.
C15_SubjectNotRegistered ==
    [][ ( /\ last'.op = "mark_attendance"
          /\ SystemExists
          /\ Authorized(last'.caller, last'.user_address)
          /\ is_user_registered(last'.user_address).value = FALSE )
        => ( /\ last'.abort = E_USER_NOT_FOUND
             /\ resources' = resources ) ]_vars

\* C15 witness: an unregistered account was refused when marking itself, on a
\* ledger that already holds a record.
C15_Witness ==
    /\ last.op = "mark_attendance"
    /\ last.abort = E_USER_NOT_FOUND
    /\ last.caller = last.user_address
    /\ NumRecords >= 1

\* The subjects of the by-date vector of date, in order.
Subjects(date) ==
    [i \in DOMAIN get_daily_attendance(date).value |->
        get_daily_attendance(date).value[i].user_address]

\* C16: get_daily_attendance(date) does not abort: it returns the empty
\* sequence for a date without records and otherwise exactly the records
\* marked for the date, one per subject, in the order in which the
\* mark_attendance calls committed.
C16_DailyAttendance ==
    /\ [](SystemExists =>
            \A date \in Dates :
               /\ get_daily_attendance(date).abort = EXECUTED
               /\ (\A a \in Address : ~HasRecord(a, date))
                     => get_daily_attendance(date).value = << >>
               /\ \A a \in Address :
                     IF HasRecord(a, date)
                     THEN \E i \in Positions(date, a) :
                             /\ Positions(date, a) = {i}
                             /\ get_daily_attendance(date).value[i]
                                   = get_user_attendance(a, date).value
                     ELSE Positions(date, a) = {})
    /\ [][ SystemExists =>
             \A date \in Dates :
                \/ Subjects(date)' = Subjects(date)
                \/ /\ last'.op = "mark_attendance"
                   /\ last'.abort = EXECUTED
                   /\ last'.date = date
                   /\ Subjects(date)'
                         = Append(Subjects(date), last'.user_address) ]_vars

\* C16 witness: a date holds two records and the one marked first is not the
\* one with the smaller address.
C16_Witness ==
    /\ SystemExists
    /\ \E date \in Dates :
          /\ Len(get_daily_attendance(date).value) = 2
          /\ Subjects(date)[1] > Subjects(date)[2]
          /\ get_daily_attendance(date).value[1].check_in_time
                < get_daily_attendance(date).value[2].check_in_time
\* C17: get_all_attendance_by_date(date, caller) aborts with E_NOT_AUTHORIZED
\* for every caller that is not the registered Admin (unregistered, Student or
\* Teacher) and for the Admin returns what get_daily_attendance(date) returns.
C17_AllAttendanceAdminOnly ==
    SystemExists =>
        \A date \in Dates, caller \in Address :
            IF HasRole(caller, USER_TYPE_ADMIN)
            THEN get_all_attendance_by_date(date, caller)
                    = get_daily_attendance(date)
            ELSE get_all_attendance_by_date(date, caller).abort
                    = E_NOT_AUTHORIZED

\* C17 witness: a registered Teacher is refused a date's records, which the
\* Admin gets, and the date has records.
C17_Witness ==
    /\ SystemExists
    /\ \E date \in Dates, caller \in Address :
          /\ HasRole(caller, USER_TYPE_TEACHER)
          /\ get_all_attendance_by_date(date, caller).abort = E_NOT_AUTHORIZED
          /\ get_all_attendance_by_date(date, get_admin_address.value).abort
                = EXECUTED
          /\ Len(get_daily_attendance(date).value) = 2

\* Positions of the registration events about address a
RegistrationEventsOf(a) ==
    {i \in DOMAIN System.user_registration_events :
        System.user_registration_events[i].user_address = a}

\* Positions of the attendance events about (a, date)
AttendanceEventsOf(a, date) ==
    {i \in DOMAIN System.attendance_marked_events :
        /\ System.attendance_marked_events[i].user_address = a
        /\ System.attendance_marked_events[i].date = date}

\* C18: event log correspondence: the logs hold exactly one registration
\* event per account created by register_user (none for the bootstrap admin)
\* and exactly one attendance event per AttendanceRecord, with the fields of
\* the stored entry, in the order the calls committed; events are only
\* appended.
C18_EventLog ==
    /\ [](SystemExists =>
            /\ \A a \in Address :
                  IF is_user_registered(a).value /\ a # get_admin_address.value
                  THEN \E i \in RegistrationEventsOf(a) :
                          /\ RegistrationEventsOf(a) = {i}
                          /\ System.user_registration_events[i] =
                               LET u == get_user_info(a).value
                               IN  UserRegistrationEvent(u.address, u.name,
                                      u.user_type, u.registration_time)
                  ELSE RegistrationEventsOf(a) = {}
            /\ \A a \in Address, date \in Dates :
                  IF HasRecord(a, date)
                  THEN \E i \in AttendanceEventsOf(a, date) :
                          /\ AttendanceEventsOf(a, date) = {i}
                          /\ System.attendance_marked_events[i] =
                               LET r == get_user_attendance(a, date).value
                               IN  AttendanceMarkedEvent(r.user_address, r.date,
                                      r.check_in_time, r.is_present,
                                      r.marked_by, r.check_in_time)
                  ELSE AttendanceEventsOf(a, date) = {})
    /\ [][ SystemExists =>
             /\ \/ System'.user_registration_events
                      = System.user_registration_events
                \/ /\ last'.op = "register_user"
                   /\ last'.abort = EXECUTED
                   /\ System'.user_registration_events =
                        Append(System.user_registration_events,
                               UserRegistrationEvent(last'.caller, last'.name,
                                                     last'.user_type, now))
             /\ \/ System'.attendance_marked_events
                      = System.attendance_marked_events
                \/ /\ last'.op = "mark_attendance"
                   /\ last'.abort = EXECUTED
                   /\ System'.attendance_marked_events =
                        Append(System.attendance_marked_events,
                               AttendanceMarkedEvent(last'.user_address,
                                  last'.date, now, last'.is_present,
                                  last'.caller, now)) ]_vars

\* C18 witness: one registration event, two attendance events, and a record
\* that has been checked out since its event was emitted.
C18_Witness ==
    /\ SystemExists
    /\ Len(System.user_registration_events) = 1
    /\ Len(System.attendance_marked_events) = 2
    /\ \E a \in Address, date \in Dates :
          /\ HasRecord(a, date)
          /\ get_user_attendance(a, date).value.check_out_time # 0

\* C19: is_user_registered, get_admin_address, is_admin and is_teacher return
\* a value for every address without aborting, and is_admin / is_teacher are
\* false for an unregistered address or an account of another role.
C19_TotalViews ==
    SystemExists =>
        /\ get_admin_address.abort = EXECUTED
        /\ get_admin_address.value \in Address
        /\ \A a \in Address :
              /\ is_user_registered(a).abort = EXECUTED
              /\ is_user_registered(a).value \in BOOLEAN
              /\ is_admin(a, System.users) \in BOOLEAN
              /\ is_teacher(a, System.users) \in BOOLEAN
              /\ ~HasRole(a, USER_TYPE_ADMIN) => ~is_admin(a, System.users)
              /\ ~HasRole(a, USER_TYPE_TEACHER) => ~is_teacher(a, System.users)

\* C19 witness: beside the admin one address is still unregistered.
C19_Witness ==
    /\ SystemExists
    /\ \E a \in Address :
          /\ is_user_registered(a).value = FALSE
          /\ ~is_admin(a, System.users)
          /\ ~is_teacher(a, System.users)
    /\ last.op = "mark_attendance"

\* C20: a successful mark_attendance(marker, subject, date, is_present)
\* creates exactly one record (subject, date, check-in = now, check-out = 0,
\* is_present, marked_by = marker), appended at the end of the by-date vector
\* of date; users, admin, every record of another (account, date) pair and
\* every other published resource are unchanged.
C20_MarkAttendanceEffect ==
    [][ ( /\ last'.op = "mark_attendance"
          /\ last'.abort = EXECUTED
          /\ resources' # resources )
        => LET r == AttendanceRecord(last'.user_address, last'.date, now, 0,
                                     last'.is_present, last'.caller)
           IN  /\ ~HasRecord(last'.user_address, last'.date)
               /\ get_user_attendance(last.user_address, last.date)'
                     = Returned(r)
               /\ get_daily_attendance(last.date)'
                     = Returned(Append(get_daily_attendance(last'.date).value,
                                       r))
               /\ \A a \in Address, date \in Dates :
                     <<a, date>> # <<last'.user_address, last'.date>>
                        => get_user_attendance(a, date)'
                              = get_user_attendance(a, date)
               /\ \A date \in Dates \ {last'.date} :
                     get_daily_attendance(date)' = get_daily_attendance(date)
               /\ System'.users = System.users
               /\ System'.admin = System.admin
               /\ \A x \in DOMAIN resources \ {wenidi_addr} :
                     resources'[x] = resources[x]
               /\ DOMAIN resources' = DOMAIN resources ]_vars

\* C20 witness: a marker other than the subject created the second record of
\* a date.
C20_Witness ==
    /\ last.op = "mark_attendance"
    /\ last.abort = EXECUTED
    /\ last.caller # last.user_address
    /\ Len(get_daily_attendance(last.date).value) = 2
    /\ get_daily_attendance(last.date).value[2].user_address
          = last.user_address

\* C21: a successful mark_checkout(caller, date) changes only the check-out
\* time of the record of (caller, date), in the per-account table and in the
\* by-date vector: the other fields of that record, every other record (the
\* other entries of the by-date vector and their positions included), users,
\* admin, both event logs and every other published resource are unchanged.
C21_CheckoutFrame ==
    [][ ( /\ last'.op = "mark_checkout"
          /\ last'.abort = EXECUTED )
        => LET c == last'.caller
               d == last'.date
               r == get_user_attendance(c, d).value
               v == get_daily_attendance(d).value
           IN  /\ HasRecord(c, d)
               /\ get_user_attendance(last.caller, last.date)'
                     = Returned(AttendanceRecord(r.user_address, r.date,
                                                 r.check_in_time, now,
                                                 r.is_present, r.marked_by))
               /\ Len(get_daily_attendance(last.date)'.value) = Len(v)
               /\ \A i \in DOMAIN v :
                     get_daily_attendance(last.date)'.value[i] =
                        IF v[i].user_address = c
                        THEN AttendanceRecord(v[i].user_address, v[i].date,
                                              v[i].check_in_time, now,
                                              v[i].is_present, v[i].marked_by)
                        ELSE v[i]
               /\ \A a \in AddressArgs, date \in Dates :
                     <<a, date>> # <<c, d>>
                        => get_user_attendance(a, date)'
                              = get_user_attendance(a, date)
               /\ \A date \in Dates \ {d} :
                     get_daily_attendance(date)' = get_daily_attendance(date)
               /\ System'.users = System.users
               /\ System'.admin = System.admin
               /\ System'.user_registration_events
                     = System.user_registration_events
               /\ System'.attendance_marked_events
                     = System.attendance_marked_events
               /\ DOMAIN System'.daily_attendance
                     = DOMAIN System.daily_attendance
               /\ DOMAIN System'.attendance_records
                     = DOMAIN System.attendance_records
               /\ \A x \in DOMAIN resources \ {wenidi_addr} :
                     resources'[x] = resources[x]
               /\ DOMAIN resources' = DOMAIN resources ]_vars

\* C21 witness: the caller of a successful mark_checkout is the first of two
\* entries of the by-date vector, and the other entry is not checked out.
C21_Witness ==
    /\ last.op = "mark_checkout"
    /\ last.abort = EXECUTED
    /\ Len(get_daily_attendance(last.date).value) = 2
    /\ Positions(last.date, last.caller) = {1}
    /\ get_daily_attendance(last.date).value[2].check_out_time = 0
    /\ Len(System.attendance_marked_events) = 2

\* The abort codes the module declares.
NamedErrors ==
    {E_NOT_AUTHORIZED, E_USER_NOT_FOUND, E_ALREADY_REGISTERED,
     E_INVALID_USER_TYPE, E_ATTENDANCE_ALREADY_MARKED}

\* C22: every rejection carries one of the module's named codes, never a
\* generic failure: a rejected transaction aborts with a code of NamedErrors,
\* and get_user_attendance(address, date) with no record for the pair, for a
\* registered or an unregistered address, aborts with the module's not-found
\* code.
C22_NamedErrorsOnly ==
    SystemExists =>
        /\ last.abort \in {EXECUTED} \cup NamedErrors
        /\ \A a \in AddressArgs, date \in Dates :
              get_user_attendance(a, date).abort
                 \in {EXECUTED, E_USER_NOT_FOUND}

\* C23: the reported code follows the order of the checks.  register_user
\* with a role other than Student or Teacher aborts with E_INVALID_USER_TYPE
\* also when the caller is already registered, and with E_ALREADY_REGISTERED
\* only for a valid role.  mark_attendance by an unauthorized marker aborts
\* with E_NOT_AUTHORIZED whatever else holds; by an authorized marker for an
\* unregistered subject with E_USER_NOT_FOUND; and with
\* E_ATTENDANCE_ALREADY_MARKED only when both earlier checks pass.
C23_CheckOrder ==
    [][ SystemExists =>
          /\ last'.op = "register_user" =>
                /\ last'.user_type \notin {USER_TYPE_STUDENT, USER_TYPE_TEACHER}
                      => last'.abort = E_INVALID_USER_TYPE
                /\ ( /\ last'.user_type
                           \in {USER_TYPE_STUDENT, USER_TYPE_TEACHER}
                      /\ is_user_registered(last'.caller).value )
                      => last'.abort = E_ALREADY_REGISTERED
          /\ last'.op = "mark_attendance" =>
                /\ ~Authorized(last'.caller, last'.user_address)
                      => last'.abort = E_NOT_AUTHORIZED
                /\ ( /\ Authorized(last'.caller, last'.user_address)
                      /\ ~is_user_registered(last'.user_address).value )
                      => last'.abort = E_USER_NOT_FOUND
                /\ ( /\ Authorized(last'.caller, last'.user_address)
                      /\ is_user_registered(last'.user_address).value
                      /\ HasRecord(last'.user_address, last'.date) )
                      => last'.abort = E_ATTENDANCE_ALREADY_MARKED
      ]_vars

\* C23 witness: an already registered Student asked for the role Admin and
\* got E_INVALID_USER_TYPE.
C23_Witness ==
    /\ last.op = "register_user"
    /\ last.user_type = USER_TYPE_ADMIN
    /\ HasRole(last.caller, USER_TYPE_STUDENT)
    /\ last.abort = E_INVALID_USER_TYPE

\* C23, the cases of mark_attendance: an unauthorized marker named a subject
\* that is not registered, or one whose record exists, and got
\* E_NOT_AUTHORIZED.
C23_WitnessMark ==
    /\ last.op = "mark_attendance"
    /\ last.abort = E_NOT_AUTHORIZED
    /\ \/ ~is_user_registered(last.user_address).value
       \/ HasRecord(last.user_address, last.date)

\* C24: every AttendanceRecord, in the per-account tables and in the by-date
\* vectors, has a registered subject, is stored under the key of its own
\* subject and date, and has marked_by equal to its subject or to an account
\* registered as Teacher or Admin.
C24_RecordsWellFormed ==
    SystemExists =>
        /\ \A a \in AddressArgs, date \in Dates :
              HasRecord(a, date) =>
                 LET r == get_user_attendance(a, date).value
                 IN  /\ r.user_address = a
                     /\ r.date = date
                     /\ is_user_registered(a).value
                     /\ Authorized(r.marked_by, a)
        /\ \A date \in Dates :
              LET v == get_daily_attendance(date).value
              IN  \A i \in DOMAIN v :
                     /\ v[i].date = date
                     /\ is_user_registered(v[i].user_address).value
                     /\ Authorized(v[i].marked_by, v[i].user_address)

\* C24 witness: a record of one account was marked by another account, a
\* registered Teacher, and a self-marked record exists beside it.
C24_Witness ==
    /\ SystemExists
    /\ \E a \in Address, date \in Dates :
          /\ HasRecord(a, date)
          /\ get_user_attendance(a, date).value.marked_by # a
          /\ HasRole(get_user_attendance(a, date).value.marked_by,
                     USER_TYPE_TEACHER)
    /\ \E a \in Address, date \in Dates :
          /\ HasRecord(a, date)
          /\ get_user_attendance(a, date).value.marked_by = a

\* C25: the addresses that have a per-account attendance sub-table are
\* exactly the registered accounts, and mark_attendance never aborts in the
\* sub-table lookup.
C25_SubTablePerAccount ==
    SystemExists =>
        /\ {a \in AddressArgs : a \in DOMAIN System.daily_attendance}
              = {a \in AddressArgs : is_user_registered(a).value}
        /\ DOMAIN System.daily_attendance \subseteq AddressArgs
        /\ last.op = "mark_attendance" => last.abort # SMART_TABLE_ENOT_FOUND

\* C25 witness: attendance was marked for an account that register_user
\* created, while another address is still unregistered.
C25_Witness ==
    /\ last.op = "mark_attendance"
    /\ last.abort = EXECUTED
    /\ get_admin_address.value # last.user_address
    /\ \E a \in AddressArgs : ~is_user_registered(a).value

\* C26: mark_checkout on a record that is already checked out is not
\* rejected: it commits, both copies of the record get the time of this call
\* as check-out time and keep their check-in time.  And a check-out time only
\* ever changes to the time of a committed mark_checkout of its subject, so it
\* is always the time of the most recent one.
C26_RepeatedCheckout ==
    [][ SystemExists =>
          /\ ( /\ last'.op = "mark_checkout"
                /\ HasRecord(last'.caller, last'.date)
                /\ get_user_attendance(last'.caller, last'.date)
                      .value.check_out_time # 0 )
              => ( /\ last'.abort = EXECUTED
                   /\ get_user_attendance(last.caller, last.date)'
                         .value.check_out_time = now
                   /\ get_user_attendance(last.caller, last.date)'
                         .value.check_in_time
                       = get_user_attendance(last'.caller, last'.date)
                           .value.check_in_time
                   /\ \A i \in Positions(last'.date, last'.caller) :
                         LET e == get_daily_attendance(last.date)'.value[i]
                         IN  /\ e.check_out_time = now
                             /\ e.check_in_time
                                  = get_daily_attendance(last'.date)
                                      .value[i].check_in_time )
          /\ \A S \in Address, date \in Dates :
                ( /\ HasRecord(S, date)
                  /\ get_user_attendance(S, date)'.value.check_out_time
                        # get_user_attendance(S, date).value.check_out_time )
                => ( /\ last' = CheckoutCall(S, date, EXECUTED)
                     /\ get_user_attendance(S, date)'.value.check_out_time
                           = now )
      ]_vars

\* C26 witness: a committed mark_checkout replaced an earlier, non-zero
\* check-out time by a later one, in both copies.
C26_Witness ==
    /\ last.op = "mark_checkout"
    /\ last.abort = EXECUTED
    /\ last.replaced # 0
    /\ last.replaced < now
    /\ get_user_attendance(last.caller, last.date).value.check_out_time = now
    /\ \A i \in Positions(last.date, last.caller) :
          get_daily_attendance(last.date).value[i].check_out_time = now

\* C27: once the wallet is disconnected (connected is false, account is null
\* and the effect for that change has run) userInfo and userType are null,
\* whatever promises were pending at the disconnect and however they settle.
C27_ClearedWhileDisconnected ==
    ( /\ ~connected
      /\ walletAccount = null
      /\ EffectsFlushed )
    => ( /\ userInfo = null
         /\ userType = nullString )

\* s is an initial segment of t.
IsPrefix(s, t) ==
    /\ Len(s) <= Len(t)
    /\ \A i \in 1..Len(s) : s[i] = t[i]

\* C28: every invocation of a transaction method of AptosService starts
\* build, signAndSubmit, waitForTransaction in that order, each only after the
\* one before it was fulfilled; it returns {success: true, hash}, with the
\* hash of the submitted transaction, only after waitForTransaction was
\* fulfilled; when a step fails it returns {success: false, error} with no
\* later step started; and it never throws.
C28_TransactionSteps ==
    \A c \in 1..MaxCalls :
       LET k == calls[c]
       IN  /\ k.pc # "threw"
           /\ IsPrefix(k.steps, TransactionSteps)
           /\ k.pc \in {"build", "signAndSubmit", "waitForTransaction"} =>
                 /\ k.result = null
                 /\ k.steps # << >>
                 /\ k.steps[Len(k.steps)] = k.pc
                 /\ Len(k.settled) = Len(k.steps) - 1
                 /\ \A i \in DOMAIN k.settled : k.settled[i] = "fulfilled"
           /\ k.pc = "returned" =>
                 /\ k.result # null
                 /\ k.result.success =>
                       /\ k.steps = TransactionSteps
                       /\ k.settled = <<"fulfilled", "fulfilled", "fulfilled">>
                       /\ k.result = Success(k.hash)
                       /\ k.hash \in Hashes
                 /\ ~k.result.success =>
                       /\ DOMAIN k.result = {"success", "error"}
                       /\ Len(k.settled) = Len(k.steps)
                       /\ \A i \in DOMAIN k.settled :
                             k.settled[i] = IF i = Len(k.settled)
                                            THEN "rejected" ELSE "fulfilled"

\* C28 witness: one invocation returned success after all three steps and
\* another returned a failure because signAndSubmit was rejected, with
\* waitForTransaction never started.
C28_Witness ==
    \E c, d \in 1..MaxCalls :
       /\ calls[c].pc = "returned"
       /\ calls[c].result.success
       /\ calls[c].steps = TransactionSteps
       /\ calls[d].pc = "returned"
       /\ ~calls[d].result.success
       /\ calls[d].steps = <<"build", "signAndSubmit">>
       /\ calls[d].settled = <<"fulfilled", "rejected">>
====
